---------------------------- MODULE Spec2Model ----------------------------
(***************************************************************************)
(* Model of src/gc.rs of git-branchless: the references branchless adds    *)
(* under refs/branchless/ to keep commits alive (mark_commit_reachable)    *)
(* and the pass that deletes those whose commit left the smartlog (gc).    *)
(*                                                                         *)
(* The reference store is the repository's reference database, a set of    *)
(* named references.  gc is a sequence of steps (gcpc), so that calls of   *)
(* other processes can be placed between them; Spec runs the calls one at  *)
(* a time, where nothing acts between the reads of gc's enumeration and    *)
(* GcFind is line 105 in one step; SpecRace and SpecPinSweep let other     *)
(* processes act between the steps of gc, the enumeration reference by     *)
(* reference and read by read (GcFindOpen, GcFindNext, GcFindVisit) and    *)
(* each deletion in the steps of the store (GcDeleteLock, GcDeleteUnlink). *)
(* SpecSweeps calls gc again and again under fairness; SpecPinSweep,       *)
(* SpecTwoPins and SpecPinFails run mark_commit_reachable in the two steps *)
(* of the store's reference update (lock file, rename) beside gc or beside *)
(* another call, in SpecPinFails with writes that fail.                    *)
(***************************************************************************)
EXTENDS Integers, Sequences, FiniteSets, TLC

\* Width of an object id in bytes.  git2::Oid holds 20; the model keeps the
\* conversion to hexadecimal and shortens the id.
OidLen == 1

----------------------------------------------------------------------------
(* Strings *)

StartsWith(s, prefix) ==
    /\ Len(s) >= Len(prefix)
    /\ SubSeq(s, 1, Len(prefix)) = prefix

EndsWith(s, suffix) ==
    /\ Len(s) >= Len(suffix)
    /\ SubSeq(s, Len(s) - Len(suffix) + 1, Len(s)) = suffix

Contains(s, t) ==
    \E i \in 1..(Len(s) - Len(t) + 1) : SubSeq(s, i, i + Len(t) - 1) = t

HexDigits == "0123456789abcdef"

RECURSIVE HexOf(_, _)
HexOf(n, digits) ==
    IF digits = 0 THEN ""
    ELSE HexOf(n \div 16, digits - 1) \o SubSeq(HexDigits, (n % 16) + 1, (n % 16) + 1)

\* Mutant: the abbreviated form, the first half of the digits.
to_string_abbrev(oid) == HexOf(oid \div (16 ^ OidLen), OidLen)

\* git2::Oid::to_string: the lowercase hexadecimal form of the id's bytes.
to_string(oid) == HexOf(oid, 2 * OidLen)

----------------------------------------------------------------------------
(* The object database: which ids name commits, annotated tags and blobs *)

Commits == {161, 178, 195}          \* a1, b2, c3
Tags    == {122}                    \* 7a, an annotated tag of commit b2
Blobs   == {11}                     \* 0b
TagTarget == [t \in Tags |-> 178]
NoOid   == [ok |-> FALSE, id |-> 0]

RECURSIVE peel(_)
peel(oid) ==
    IF oid \in Commits THEN [ok |-> TRUE, id |-> oid]
    ELSE IF oid \in Tags THEN peel(TagTarget[oid])
    ELSE NoOid

----------------------------------------------------------------------------
(* References *)

Direct(n, oid)    == [name |-> n, utf8 |-> TRUE, kind |-> "direct", oid |-> oid, sym |-> ""]
Symbolic(n, to)   == [name |-> n, utf8 |-> TRUE, kind |-> "symbolic", oid |-> 0, sym |-> to]
\* A reference whose name is not valid UTF-8; name holds its lossy rendering.
RawNamed(n, oid)  == [name |-> n, utf8 |-> FALSE, kind |-> "direct", oid |-> oid, sym |-> ""]

\* git2::Reference::name: None when the name is not valid UTF-8.
name(rf) ==
    IF rf.utf8 THEN [some |-> TRUE, v |-> rf.name]
    ELSE [some |-> FALSE, v |-> ""]

Lookup(store, n) == {r \in store : r.utf8 /\ r.name = n}

\* The nesting level of the store: after the reference a symbolic target
\* names has been read, at most this many symbolic references are followed.
MaxNesting == 5

\* What the store holds now under the name of a reference read before.
Reread(store, rf) == {r \in store : r.name = rf.name /\ r.utf8 = rf.utf8}

\* Read the reference of a name and follow symbolic references to a direct
\* one, at most `nesting` of them; fails on a missing name and when the
\* reference reached after `nesting` steps is still symbolic.
RECURSIVE ResolveFrom(_, _, _)
ResolveFrom(store, ref_name, nesting) ==
    IF Lookup(store, ref_name) = {} THEN [ok |-> FALSE, ref |-> Direct(ref_name, 0)]
    ELSE LET r == CHOOSE r \in Lookup(store, ref_name) : TRUE IN
         IF r.kind = "direct" THEN [ok |-> TRUE, ref |-> r]
         ELSE IF nesting = 0 THEN [ok |-> FALSE, ref |-> r]
         ELSE ResolveFrom(store, r.sym, nesting - 1)

\* git2::Reference::resolve: a direct reference is read again from the
\* store, by its name, and returned as the store holds it; a symbolic
\* reference is followed from the target it was read with, through what the
\* store holds now.
resolve(store, rf) ==
    IF rf.kind = "symbolic" THEN ResolveFrom(store, rf.sym, MaxNesting)
    ELSE IF Reread(store, rf) = {} THEN [ok |-> FALSE, ref |-> rf]
    ELSE [ok |-> TRUE, ref |-> CHOOSE r \in Reread(store, rf) : TRUE]

\* git2::Reference::peel_to_commit: the object of a direct reference is
\* peeled; a symbolic reference is resolved first.
peel_to_commit(store, rf) ==
    IF rf.kind = "direct" THEN peel(rf.oid)
    ELSE LET resolved == resolve(store, rf) IN
         IF resolved.ok THEN peel(resolved.ref.oid) ELSE NoOid

\* The commit a reference leads to, if it resolves and peels to one.
CommitOf(store, rf) ==
    LET resolved == resolve(store, rf) IN
    IF resolved.ok THEN peel_to_commit(store, resolved.ref) ELSE NoOid

\* eventlog::is_gc_ref: the names branchless owns.
is_gc_ref(ref_name) == StartsWith(ref_name, "refs/branchless/")

\* git2::Reference::is_valid_name, the rules of git-check-ref-format that a
\* name built from a prefix and an id can meet.
BadChars == {" ", "~", "^", ":", "?", "*", "[", "\\"}
is_valid_name(ref_name) ==
    /\ Len(ref_name) > 0
    /\ Contains(ref_name, "/")
    /\ ~StartsWith(ref_name, "/") /\ ~EndsWith(ref_name, "/")
    /\ ~StartsWith(ref_name, ".")
    /\ ~EndsWith(ref_name, ".") /\ ~EndsWith(ref_name, ".lock")
    /\ ~Contains(ref_name, "..") /\ ~Contains(ref_name, "//")
    /\ ~Contains(ref_name, "/.") /\ ~Contains(ref_name, "@{")
    /\ \A i \in 1..Len(ref_name) : SubSeq(ref_name, i, i) \notin BadChars

\* Mutant: the name is built under the branch namespace.
GcRefName_heads(commit_oid) == "refs/heads/" \o to_string(commit_oid)

\* The name mark_commit_reachable gives the reference of a commit.
GcRefName(commit_oid) == "refs/branchless/" \o to_string(commit_oid)

\* Mutant: the force flag dropped, so an existing name is an error.
reference_noforce(store, ref_name, oid, force) ==
    IF Lookup(store, ref_name) # {}
    THEN [ok |-> FALSE, store |-> store]
    ELSE [ok |-> TRUE, store |-> store \cup {Direct(ref_name, oid)}]

\* Mutant: the new reference is added beside the one of the same name.
reference_append(store, ref_name, oid, force) ==
    [ok |-> TRUE, store |-> store \cup {Direct(ref_name, oid)}]

\* git2::Repository::reference(name, id, force, log_message): create a direct
\* reference; with force an existing reference of that name is replaced,
\* without it an existing name is an error.
reference(store, ref_name, oid, force) ==
    IF ~force /\ Lookup(store, ref_name) # {}
    THEN [ok |-> FALSE, store |-> store]
    ELSE [ok |-> TRUE,
          store |-> (store \ Lookup(store, ref_name)) \cup {Direct(ref_name, oid)}]

\* git2::Repository::references: the references under refs/ (HEAD is not one).
references(store) == {r \in store : StartsWith(r.name, "refs/")}

----------------------------------------------------------------------------
(* The smartlog graph, computed outside src/gc.rs *)

LogStatus == {"unknown", "visible", "hidden"}

\* The commits whose status the event log decides; the main branch's commit
\* is in the graph whatever the log says.
LogCommits == {178, 195}

get_head_oid(store) ==
    LET h == Lookup(store, "HEAD") IN
    IF h = {} THEN NoOid ELSE CommitOf(store, CHOOSE r \in h : TRUE)

get_main_branch_oid(store) ==
    LET m == Lookup(store, "refs/heads/master") IN
    IF m = {} THEN NoOid ELSE CommitOf(store, CHOOSE r \in m : TRUE)

get_branch_oid_to_names(store) ==
    {CommitOf(store, r).id :
        r \in {b \in store : b.utf8 /\ StartsWith(b.name, "refs/heads/")
                                    /\ CommitOf(store, b).ok}}

\* graph::make_graph with hidden commits removed: the main branch's commit,
\* and the head, the branch tips and the commits the event log has seen,
\* except those the event log has hidden.
make_graph(store, log) ==
    LET head   == get_head_oid(store)
        main   == get_main_branch_oid(store)
        tips   == (IF head.ok THEN {head.id} ELSE {}) \cup get_branch_oid_to_names(store)
        active == {c \in DOMAIN log : log[c] = "visible"}
        hidden == {c \in DOMAIN log : log[c] = "hidden"}
    IN  (IF main.ok THEN {main.id} ELSE {}) \cup ((tips \cup active) \ hidden)


----------------------------------------------------------------------------
(* State *)

VARIABLES
    refs,       \* the reference store: a set of references
    events,     \* the event log as replayed: the status of each commit
    gcpc,       \* where the running gc is: "idle" when none runs
    graph,      \* gc's local: what make_graph returned, a graph or an error
    dangling,   \* gc's local: the references still to delete, in order
    out,        \* the lines gc has written to its output
    pre,        \* the reference store when the current or last call began
    call,       \* the current or last call of this module and its result
    repeated,   \* whether the call before it was the same call and returned Ok
    pins,       \* the calls of mark_commit_reachable that other processes
                \* have under way, step by step: where each one is
    todo,       \* gc's iterator: the names it has still to yield
    cur         \* gc's local: the reference the iterator has just yielded

vars == <<refs, events, gcpc, graph, dangling, out, pre, call, repeated, pins,
          todo, cur>>

\* The processes that call mark_commit_reachable beside others.
Proc == {1, 2}

Pin(pc, oid, result, at, writes) ==
    [pc |-> pc, oid |-> oid, result |-> result, at |-> at, writes |-> writes]
NoPin == Pin("idle", 0, "none", "none", 0)

NoGraph == [ok |-> FALSE, commits |-> {}]

Call(op, oid, result) == [op |-> op, oid |-> oid, result |-> result]
NoCall == Call("none", 0, "none")

\* Every store holds HEAD and the main branch.
BaseRefs == {Symbolic("HEAD", "refs/heads/master"), Direct("refs/heads/master", 161)}

\* What else a store may hold beside the references of pinned commits.
OtherRefs ==
    { {},
      {Direct("refs/heads/feature", 178)},
      {Symbolic("refs/remotes/origin/HEAD", "refs/remotes/origin/main")},
      {Symbolic("refs/branchless/stash", "refs/heads/feature"),
       Direct("refs/heads/feature", 178)},
      {Direct(GcRefName(11), 11)},
      {Direct(GcRefName(122), 122)},
      {RawNamed("refs/heads/caf?", 178)},
      {Symbolic("refs/keep/wip", GcRefName(178))} }

\* The reference of a commit under refs/branchless/: absent, pointing at the
\* commit, or (written by other tooling) pointing at another commit.
Slot(c) == { {}, {Direct(GcRefName(c), c)} }
              \cup (IF c = 195 THEN {{Direct(GcRefName(c), 178)}} ELSE {})

InitStores ==
    { BaseRefs \cup a \cup b \cup c \cup o :
        a \in Slot(161), b \in Slot(178), c \in Slot(195), o \in OtherRefs }

Init ==
    /\ refs \in InitStores
    /\ events \in [LogCommits -> LogStatus]
    /\ gcpc = "idle"
    /\ graph = NoGraph
    /\ dangling = <<>>
    /\ out = <<>>
    /\ pre = refs
    /\ call = NoCall
    /\ repeated = FALSE
    /\ pins = [p \in Proc |-> NoPin]
    /\ todo = {}
    /\ cur = <<>>

----------------------------------------------------------------------------
(* mark_commit_reachable *)

mark_commit_reachable(commit_oid) ==
    LET ref_name == GcRefName(commit_oid) IN
    /\ pre' = refs
    /\ repeated' = (call = Call("mark_commit_reachable", commit_oid, "Ok"))
    /\ IF ~is_valid_name(ref_name)
       THEN /\ call' = Call("mark_commit_reachable", commit_oid, "InvalidName")
            /\ refs' = refs
       ELSE \E written \in BOOLEAN :
              LET created == reference(refs, ref_name, commit_oid, TRUE) IN
              IF ~written
              THEN /\ refs' = refs
                   /\ call' = Call("mark_commit_reachable", commit_oid, "IoError")
              ELSE IF ~created.ok
              THEN /\ refs' = refs
                   /\ call' = Call("mark_commit_reachable", commit_oid, "CreateError")
              ELSE /\ refs' = created.store
                   /\ call' = Call("mark_commit_reachable", commit_oid, "Ok")
    /\ UNCHANGED <<events, gcpc, graph, dangling, out>>

----------------------------------------------------------------------------
(* mark_commit_reachable beside other calls: the steps of repo.reference *)

\* A process holds the lock file of the name (<name>.lock): a call of
\* mark_commit_reachable that is writing it, or gc that is deleting it.
Locked(ref_name) ==
    \/ \E p \in Proc : pins[p].pc = "locked" /\ GcRefName(pins[p].oid) = ref_name
    \/ (gcpc = "unlink" /\ Head(dangling).name = ref_name)

\* When a reference is written, relative to the call of gc.
Phase == IF call.op # "gc" THEN "before" ELSE IF gcpc # "idle" THEN "during" ELSE "after"

\* Mutant: the lock file of another process is taken over.
PinLock_takeover(p, commit_oid) ==
    /\ pins[p].pc = "idle"
    /\ pins' = [pins EXCEPT ![p] = Pin("locked", commit_oid, "running", "none", 1)]
    /\ UNCHANGED <<refs, events, gcpc, graph, dangling, out, pre, call, repeated, todo, cur>>

\* Mutant: repo.reference is called again when it found the lock file taken.
PinLock_retry(p, commit_oid) ==
    LET ref_name == GcRefName(commit_oid) IN
    /\ pins[p].pc = "idle"
    /\ pins' = [pins EXCEPT ![p] =
                  IF ~is_valid_name(ref_name)
                  THEN Pin("returned", commit_oid, "InvalidName", "none", 0)
                  ELSE IF Locked(ref_name)
                  THEN Pin("returned", commit_oid, "Locked", "none", 2)
                  ELSE Pin("locked", commit_oid, "running", "none", 1)]
    /\ UNCHANGED <<refs, events, gcpc, graph, dangling, out, pre, call, repeated, todo, cur>>

\* Lines 66-70 and the start of repo.reference (71): the name is built and
\* checked, and the store creates the lock file of the name; it fails when
\* the lock file exists, without waiting.
PinLock(p, commit_oid) ==
    LET ref_name == GcRefName(commit_oid) IN
    /\ pins[p].pc = "idle"
    /\ pins' = [pins EXCEPT ![p] =
                  IF ~is_valid_name(ref_name)
                  THEN Pin("returned", commit_oid, "InvalidName", "none", 0)
                  ELSE IF Locked(ref_name)
                  THEN Pin("returned", commit_oid, "Locked", "none", 1)
                  ELSE Pin("locked", commit_oid, "running", "none", 1)]
    /\ UNCHANGED <<refs, events, gcpc, graph, dangling, out, pre, call, repeated, todo, cur>>

\* The rest of repo.reference (71-77) and the return (78): the lock file is
\* renamed onto the reference, or removed when the write fails.
PinWrite(p) ==
    /\ pins[p].pc = "locked"
    /\ \E written \in BOOLEAN :
         LET created == reference(refs, GcRefName(pins[p].oid), pins[p].oid, TRUE) IN
         IF written /\ created.ok
         THEN /\ refs' = created.store
              /\ pins' = [pins EXCEPT ![p] = Pin("returned", pins[p].oid, "Ok", Phase, pins[p].writes)]
         ELSE /\ refs' = refs
              /\ pins' = [pins EXCEPT ![p] = Pin("returned", pins[p].oid, "IoError", Phase, pins[p].writes)]
    /\ UNCHANGED <<events, gcpc, graph, dangling, out, pre, call, repeated, todo, cur>>

----------------------------------------------------------------------------
(* gc *)

\* Mutant: the graph is not consulted, every gc reference of a commit dangles.
Visit_no_graph(store, rf, g) ==
    IF ~name(rf).some THEN "continue"
    ELSE LET resolved_reference == resolve(store, rf) IN
         IF ~resolved_reference.ok THEN "error"
         ELSE LET commit == peel_to_commit(store, resolved_reference.ref) IN
              IF commit.ok /\ is_gc_ref(name(rf).v) THEN "push" ELSE "continue"

\* Mutant: the name is not consulted, every reference of an invisible commit
\* dangles.
Visit_any_name(store, rf, g) ==
    IF ~name(rf).some THEN "continue"
    ELSE LET resolved_reference == resolve(store, rf) IN
         IF ~resolved_reference.ok THEN "error"
         ELSE LET commit == peel_to_commit(store, resolved_reference.ref) IN
              IF commit.ok /\ commit.id \notin g THEN "push" ELSE "continue"

\* Mutant: a reference that does not lead to a commit is an error.
Visit_peel_error(store, rf, g) ==
    IF ~name(rf).some THEN "continue"
    ELSE LET resolved_reference == resolve(store, rf) IN
         IF ~resolved_reference.ok THEN "error"
         ELSE LET commit == peel_to_commit(store, resolved_reference.ref) IN
              IF ~commit.ok THEN "error"
              ELSE IF is_gc_ref(name(rf).v) /\ commit.id \notin g
              THEN "push"
              ELSE "continue"

\* The body of the loop of find_dangling_references for one reference.
Visit(store, rf, g) ==
    IF ~name(rf).some THEN "continue"
    ELSE LET resolved_reference == resolve(store, rf) IN
         IF ~resolved_reference.ok THEN "error"
         ELSE LET commit == peel_to_commit(store, resolved_reference.ref) IN
              IF commit.ok /\ is_gc_ref(name(rf).v) /\ commit.id \notin g
              THEN "push"
              ELSE "continue"

\* Mutant: the loop ends at the first reference it pushes.
find_dangling_references_first(store, g) ==
    LET pushed == {r \in references(store) : Visit(store, r, g) = "push"} IN
    IF \E r \in references(store) : Visit(store, r, g) = "error"
    THEN [ok |-> FALSE, result |-> {}]
    ELSE [ok |-> TRUE,
          result |-> IF pushed = {} THEN {} ELSE {CHOOSE r \in pushed : TRUE}]

\* find_dangling_references: an error as soon as a reference does not
\* resolve, else the references the loop pushed.
find_dangling_references(store, g) ==
    IF \E r \in references(store) : Visit(store, r, g) = "error"
    THEN [ok |-> FALSE, result |-> {}]
    ELSE [ok |-> TRUE, result |-> {r \in references(store) : Visit(store, r, g) = "push"}]

\* The orders in which the store may yield a set of references.
RECURSIVE Orders(_)
Orders(S) ==
    IF S = {} THEN {<<>>}
    ELSE UNION {{<<x>> \o s : s \in Orders(S \ {x})} : x \in S}

\* Mutant: the deletion removes every reference that points at the same id.
delete_by_target(store, rf) ==
    IF rf \in store
    THEN [ok |-> TRUE, store |-> {r \in store : r.kind # rf.kind \/ r.oid # rf.oid \/ r.sym # rf.sym}]
    ELSE [ok |-> FALSE, store |-> store]

\* git2::Reference::delete: deletes the reference if the store still holds
\* it with the value it was read with.
delete(store, rf) ==
    IF rf \in store
    THEN [ok |-> TRUE, store |-> store \ {rf}]
    ELSE [ok |-> FALSE, store |-> store]

GcReturn(result) ==
    /\ gcpc' = "idle"
    /\ dangling' = <<>>
    /\ call' = Call("gc", 0, result)

\* Mutant: a failure to compute the graph is not returned, the pass goes on
\* with an empty graph.
GcOpen_ignore_error ==
    /\ gcpc = "idle"
    /\ pre' = refs
    /\ repeated' = (call = Call("gc", 0, "Ok"))
    /\ out' = <<>>
    /\ \E computed \in BOOLEAN :
         graph' = IF computed THEN [ok |-> TRUE, commits |-> make_graph(refs, events)]
                              ELSE NoGraph
    /\ gcpc' = "writeln"
    /\ call' = Call("gc", 0, "running")
    /\ dangling' = <<>>
    /\ UNCHANGED <<refs, events>>

\* Lines 85-102: open the repository and the databases, compute the graph.
GcOpen ==
    /\ gcpc = "idle"
    /\ pre' = refs
    /\ repeated' = (call = Call("gc", 0, "Ok"))
    /\ out' = <<>>
    /\ \E computed \in BOOLEAN :
         IF computed
         THEN /\ graph' = [ok |-> TRUE, commits |-> make_graph(refs, events)]
              /\ gcpc' = "writeln"
              /\ call' = Call("gc", 0, "running")
              /\ dangling' = <<>>
         ELSE /\ graph' = NoGraph
              /\ GcReturn("VisibilityError")
    /\ UNCHANGED <<refs, events>>

\* Mutant: the progress line is not written.
GcWriteln_silent ==
    /\ gcpc = "writeln"
    /\ out' = out
    /\ gcpc' = "find"
    /\ UNCHANGED <<dangling, call>>
    /\ UNCHANGED <<refs, events, graph, pre, repeated>>

\* Line 104: the progress line.
GcWriteln ==
    /\ gcpc = "writeln"
    /\ \E written \in BOOLEAN :
         IF written
         THEN /\ out' = Append(out, "branchless: collecting garbage")
              /\ gcpc' = "find"
              /\ UNCHANGED <<dangling, call>>
         ELSE /\ out' = out
              /\ GcReturn("WriteError")
    /\ UNCHANGED <<refs, events, graph, pre, repeated>>

\* Mutant: each dangling reference is deleted as the enumeration finds it, so
\* that an error of the enumeration comes after deletions.
GcFind_streaming ==
    /\ gcpc = "find"
    /\ LET found == find_dangling_references(refs, graph.commits)
           partial == {r \in references(refs) : Visit(refs, r, graph.commits) = "push"} IN
       IF ~found.ok
       THEN /\ refs' = refs \ partial
            /\ GcReturn("ResolveError")
       ELSE /\ refs' = refs \ found.result
            /\ GcReturn("Ok")
    /\ UNCHANGED <<events, graph, out, pre, repeated>>

\* Line 105, and the return of line 111 when nothing dangles, when no other
\* process acts during the enumeration: all its reads see one store.
GcFind ==
    /\ gcpc = "find"
    /\ \E readable \in BOOLEAN :
         LET found == find_dangling_references(refs, graph.commits) IN
         IF ~readable THEN GcReturn("ReadError")
         ELSE IF ~found.ok THEN GcReturn("ResolveError")
         ELSE IF found.result = {} THEN GcReturn("Ok")
         ELSE /\ dangling' \in Orders(found.result)
              /\ gcpc' = "delete"
              /\ call' = call
    /\ UNCHANGED <<refs, events, graph, out, pre, repeated>>

\* Line 105 beside other processes, in the steps of find_dangling_references.
\* Lines 29-33: the iterator is created; it holds the names of the store.
GcFindOpen ==
    /\ gcpc = "find"
    /\ \E readable \in BOOLEAN :
         IF ~readable
         THEN /\ GcReturn("ReadError")
              /\ todo' = {}
         ELSE /\ todo' = {[name |-> r.name, utf8 |-> r.utf8] : r \in references(refs)}
              /\ gcpc' = "iter"
              /\ UNCHANGED <<dangling, call>>
    /\ cur' = <<>>
    /\ UNCHANGED <<refs, events, graph, out, pre, repeated>>

\* Line 35 and 36: the iterator yields the next name, in the order of the
\* store, with the value the store holds under it now; a name that is gone
\* is passed over.  After the last one, line 53 and the return of line 111
\* when nothing dangles.
GcFindNext ==
    /\ gcpc = "iter"
    /\ cur = <<>>
    /\ IF todo = {}
       THEN /\ IF dangling = <<>>
               THEN GcReturn("Ok")
               ELSE /\ gcpc' = "delete"
                    /\ UNCHANGED <<dangling, call>>
            /\ UNCHANGED <<todo, cur>>
       ELSE \E n \in todo, readable \in BOOLEAN :
              IF ~readable
              THEN /\ GcReturn("ReadError")
                   /\ todo' = {}
                   /\ cur' = <<>>
              ELSE /\ todo' = todo \ {n}
                   /\ cur' = IF Reread(refs, n) = {} THEN <<>>
                              ELSE <<CHOOSE r \in Reread(refs, n) : TRUE>>
                   /\ UNCHANGED <<gcpc, dangling, call>>
    /\ UNCHANGED <<refs, events, graph, out, pre, repeated>>

\* Lines 37-52: the body of the loop for the reference the iterator yielded;
\* resolve reads the store again, and the reference pushed is the one the
\* iterator yielded.
GcFindVisit ==
    /\ gcpc = "iter"
    /\ cur # <<>>
    /\ LET visited == Visit(refs, cur[1], graph.commits) IN
       IF visited = "error"
       THEN /\ GcReturn("ResolveError")
            /\ todo' = {}
       ELSE /\ dangling' = IF visited = "push" THEN Append(dangling, cur[1]) ELSE dangling
            /\ UNCHANGED <<gcpc, call, todo>>
    /\ cur' = <<>>
    /\ UNCHANGED <<refs, events, graph, out, pre, repeated>>

\* Lines 106-110: one pass of the loop, and the return of line 111 after the
\* last one, when no other process acts during reference.delete(): the lock
\* file is taken and released within the step.  The store refuses the
\* deletion while another process holds the lock file of the name.
GcDelete ==
    /\ gcpc = "delete"
    /\ \E deletable \in BOOLEAN :
         LET deleted == delete(refs, Head(dangling)) IN
         IF deletable /\ deleted.ok /\ ~Locked(Head(dangling).name)
         THEN /\ refs' = deleted.store
              /\ IF Tail(dangling) = <<>>
                 THEN GcReturn("Ok")
                 ELSE /\ dangling' = Tail(dangling)
                      /\ UNCHANGED <<gcpc, call>>
         ELSE /\ refs' = refs
              /\ GcReturn("DeleteError")
    /\ UNCHANGED <<events, graph, out, pre, repeated>>

\* Line 108 beside other processes, in the steps of reference.delete().
\* The store creates the lock file of the name; it fails when another
\* process holds it.
GcDeleteLock ==
    /\ gcpc = "delete"
    /\ \E deletable \in BOOLEAN :
         IF deletable /\ ~Locked(Head(dangling).name)
         THEN /\ gcpc' = "unlink"
              /\ UNCHANGED <<dangling, call>>
         ELSE GcReturn("DeleteError")
    /\ UNCHANGED <<refs, events, graph, out, pre, repeated>>

\* Mutant: the reference is looked up again by its name and deleted,
\* whatever it holds now.
GcDeleteUnlink_fresh ==
    /\ gcpc = "unlink"
    /\ LET now == Lookup(refs, Head(dangling).name) IN
       IF now # {}
       THEN /\ refs' = refs \ now
            /\ IF Tail(dangling) = <<>>
               THEN GcReturn("Ok")
               ELSE /\ dangling' = Tail(dangling)
                    /\ gcpc' = "delete"
                    /\ call' = call
       ELSE /\ refs' = refs
            /\ GcReturn("DeleteError")
    /\ UNCHANGED <<events, graph, out, pre, repeated>>

\* The rest of line 108: under the lock the value is compared with the one
\* the reference was read with, the reference is removed and the lock file
\* released; lines 106-110 go on, and line 111 returns after the last one.
GcDeleteUnlink ==
    /\ gcpc = "unlink"
    /\ LET deleted == delete(refs, Head(dangling)) IN
       IF deleted.ok
       THEN /\ refs' = deleted.store
            /\ IF Tail(dangling) = <<>>
               THEN GcReturn("Ok")
               ELSE /\ dangling' = Tail(dangling)
                    /\ gcpc' = "delete"
                    /\ call' = call
       ELSE /\ refs' = refs
            /\ GcReturn("DeleteError")
    /\ UNCHANGED <<events, graph, out, pre, repeated>>

----------------------------------------------------------------------------
(* Other processes: the event log *)

\* A command of branchless records an event that changes a commit's status.
RecordEvent(c, status) ==
    /\ events[c] # status
    /\ events' = [events EXCEPT ![c] = status]
    /\ pre' = refs
    /\ call' = IF gcpc = "idle" THEN NoCall ELSE call
    /\ repeated' = FALSE
    /\ UNCHANGED <<refs, gcpc, graph, dangling, out>>

----------------------------------------------------------------------------
(* Specifications *)

\* One call at a time: nothing else acts while gc runs.
Next ==
    \/ (GcOpen /\ UNCHANGED <<pins, todo, cur>>)
    \/ (GcWriteln /\ UNCHANGED <<pins, todo, cur>>)
    \/ (GcFind /\ UNCHANGED <<pins, todo, cur>>)
    \/ (GcDelete /\ UNCHANGED <<pins, todo, cur>>)
    \/ (gcpc = "idle" /\ UNCHANGED <<pins, todo, cur>> /\ \E c \in Commits : mark_commit_reachable(c))
    \/ (gcpc = "idle" /\ UNCHANGED <<pins, todo, cur>>
            /\ \E c \in LogCommits, s \in LogStatus : RecordEvent(c, s))

Spec == Init /\ [][Next]_vars

\* Independent processes: the commands that record events act between the
\* steps of gc; calls of mark_commit_reachable come between calls of gc here,
\* and beside gc, in their own steps, in SpecPinSweep.
NextRace ==
    \/ (GcOpen /\ UNCHANGED <<pins, todo, cur>>)
    \/ (GcWriteln /\ UNCHANGED <<pins, todo, cur>>)
    \/ (GcFindOpen /\ UNCHANGED pins)
    \/ (GcFindNext /\ UNCHANGED pins)
    \/ (GcFindVisit /\ UNCHANGED pins)
    \/ (GcDeleteLock /\ UNCHANGED <<pins, todo, cur>>)
    \/ (GcDeleteUnlink /\ UNCHANGED <<pins, todo, cur>>)
    \/ (gcpc = "idle" /\ UNCHANGED <<pins, todo, cur>>
            /\ \E c \in Commits : mark_commit_reachable(c))
    \/ (UNCHANGED <<pins, todo, cur>> /\ \E c \in LogCommits, s \in LogStatus : RecordEvent(c, s))

SpecRace == Init /\ [][NextRace]_vars

\* gc is called again and again and nothing else acts, so the event log, and
\* with it the status of every commit, stays as it is.  The graph keeps
\* being computed, and the sink, the enumeration and the deletions do not
\* fail forever.
NextSweeps ==
    \/ (GcOpen /\ UNCHANGED <<pins, todo, cur>>)
    \/ (GcWriteln /\ UNCHANGED <<pins, todo, cur>>)
    \/ (GcFind /\ UNCHANGED <<pins, todo, cur>>)
    \/ (GcDelete /\ UNCHANGED <<pins, todo, cur>>)

SpecSweeps ==
    /\ Init
    /\ [][NextSweeps]_vars
    /\ SF_vars(GcOpen /\ graph'.ok /\ UNCHANGED <<pins, todo, cur>>)
    /\ SF_vars(GcWriteln /\ gcpc' = "find" /\ UNCHANGED <<pins, todo, cur>>)
    /\ SF_vars(GcFind /\ call'.result # "ReadError" /\ UNCHANGED <<pins, todo, cur>>)
    /\ SF_vars(GcDelete /\ refs' # refs /\ UNCHANGED <<pins, todo, cur>>)

\* One call of mark_commit_reachable, in its steps, beside one call of gc,
\* in any interleaving.  Failures of the disk are left out, so that what
\* remains is what the interleaving does.
NextPinSweep ==
    \/ (call.op # "gc" /\ GcOpen /\ graph'.ok /\ UNCHANGED <<pins, todo, cur>>)
    \/ (GcWriteln /\ gcpc' = "find" /\ UNCHANGED <<pins, todo, cur>>)
    \/ (GcFindOpen /\ call'.result # "ReadError" /\ UNCHANGED pins)
    \/ (GcFindNext /\ call'.result # "ReadError" /\ UNCHANGED pins)
    \/ (GcFindVisit /\ UNCHANGED pins)
    \/ (GcDeleteLock /\ UNCHANGED <<pins, todo, cur>>
            /\ (~Locked(Head(dangling).name) => gcpc' = "unlink"))
    \/ (GcDeleteUnlink /\ UNCHANGED <<pins, todo, cur>>)
    \/ \E c \in Commits : PinLock(1, c)
    \/ (PinWrite(1) /\ pins'[1].result = "Ok")

SpecPinSweep == Init /\ [][NextPinSweep]_vars

\* Two calls of mark_commit_reachable, in their steps, in any interleaving.
NextTwoPins ==
    \/ \E p \in Proc, c \in Commits : PinLock(p, c)
    \/ \E p \in Proc : PinWrite(p) /\ pins'[p].result = "Ok"

SpecTwoPins == Init /\ [][NextTwoPins]_vars

\* Two calls of mark_commit_reachable in independent processes, the write of
\* either failing or not.
NextPinFails ==
    \/ \E p \in Proc, c \in Commits : PinLock(p, c)
    \/ \E p \in Proc : PinWrite(p)

SpecPinFails == Init /\ [][NextPinFails]_vars

TypeOK ==
    /\ gcpc \in {"idle", "writeln", "find", "iter", "delete", "unlink"}
    /\ graph.commits \subseteq Commits
    /\ Len(out) <= 1


----------------------------------------------------------------------------
(* Properties *)

\* The names under refs/branchless/.
Reserved(r) == name(r).some /\ is_gc_ref(name(r).v)

NonReserved(store) == {r \in store : ~Reserved(r)}

\* gc is the current or last call (Sweep), running or returned.
InSweep == call.op = "gc"

\* gc has returned and nothing has happened since.
SweepReturned(result) == gcpc = "idle" /\ call = Call("gc", 0, result)

\* The references of pre that lead to a commit of the graph this gc computed.
Kept == {r \in pre : CommitOf(pre, r).ok /\ CommitOf(pre, r).id \in graph.commits}

\* The gc references of pre that lead to a commit outside that graph.
Dead == {r \in pre : /\ Reserved(r)
                     /\ CommitOf(pre, r).ok
                     /\ CommitOf(pre, r).id \notin graph.commits}

\* C1 (Sweep safety): while gc runs and after it has returned, every
\* reference, reserved or not, that led to a commit of the graph gc computed
\* is still in the store and leads to the same commit.
C1_SweepSafety ==
    (InSweep /\ graph.ok) =>
        \A r \in Kept : r \in refs /\ CommitOf(refs, r) = CommitOf(pre, r)

\* A gc that deleted a reference and kept a gc reference of a visible commit.
C1_Witness ==
    /\ SweepReturned("Ok")
    /\ refs # pre
    /\ \E r \in Kept : Reserved(r) /\ r \in refs

\* C2 (Sweep liveness): when gc has returned Ok, no reference of the reserved
\* namespace that led to a commit outside the computed graph is left, under
\* its name or any value.
C2_SweepLiveness ==
    SweepReturned("Ok") =>
        \A r \in Dead : r \notin refs /\ Lookup(refs, r.name) = {}

\* The example: gc references of a1, b2 and c3, graph {a1, c3}; the
\* references of a1 and c3 remain and that of b2 is gone.
C2_Witness ==
    /\ SweepReturned("Ok")
    /\ {r \in pre : Reserved(r)} = {Direct(GcRefName(c), c) : c \in Commits}
    /\ graph.commits = {161, 195}
    /\ {r \in refs : Reserved(r)} = {Direct(GcRefName(c), c) : c \in {161, 195}}

\* C3 (Sweep non-interference): while gc runs and after it has returned, with
\* any result, the references outside the reserved namespace are those the
\* store held when gc began, with the same values.
C3_SweepNonInterference ==
    InSweep => NonReserved(refs) = NonReserved(pre)

\* The example: gc deleted the gc reference of b2, which is outside the graph,
\* and the branch refs/heads/feature still points at b2.
C3_Witness ==
    /\ SweepReturned("Ok")
    /\ 178 \notin graph.commits
    /\ Direct(GcRefName(178), 178) \in pre \ refs
    /\ Direct("refs/heads/feature", 178) \in refs

\* C4 (fail-closed): when the graph could not be computed, gc has returned an
\* error and the store is as it was when gc began.
C4_FailClosed ==
    (InSweep /\ ~graph.ok) =>
        /\ SweepReturned("VisibilityError")
        /\ refs = pre

\* The graph could not be computed while gc references of invisible commits
\* were in the store.
C4_Witness ==
    /\ SweepReturned("VisibilityError")
    /\ \E r \in refs : /\ Reserved(r)
                       /\ CommitOf(refs, r).ok
                       /\ CommitOf(refs, r).id \notin make_graph(refs, events)


----------------------------------------------------------------------------

\* The references of a store that do not resolve.
Unresolvable(store) == {r \in references(store) : name(r).some /\ ~resolve(store, r).ok}

\* C5 (skip on unresolvable): a reference that does not resolve does not make
\* gc return an error; when gc has returned and no read, write or delete
\* failed, it has returned Ok, the unresolvable references are untouched and
\* every gc reference of a commit outside the graph is deleted.
C5_SkipOnUnresolvable ==
    (/\ gcpc = "idle" /\ InSweep /\ graph.ok
     /\ Unresolvable(pre) # {}
     /\ call.result \notin {"WriteError", "ReadError", "DeleteError"}) =>
        /\ call.result = "Ok"
        /\ Unresolvable(pre) \subseteq refs
        /\ \A r \in Dead : r \notin refs

\* What the code does instead: the first reference that does not resolve
\* ends gc with an error before anything is deleted.
C5_AbortsOnUnresolvable ==
    (InSweep /\ graph.ok /\ Unresolvable(pre) # {}) =>
        /\ call.result # "Ok"
        /\ refs = pre

\* C6 (no window): a step of gc never deletes a reference of the reserved
\* namespace whose commit is in the graph that the store and the event log
\* give at the moment of the deletion.
C6_NoWindow ==
    [][\A r \in refs :
          (/\ gcpc \in {"delete", "unlink"}
           /\ Reserved(r)
           /\ r \notin refs'
           /\ Lookup(refs', r.name) = {}) =>
              ~(/\ CommitOf(refs, r).ok
                /\ CommitOf(refs, r).id \in make_graph(refs, events))]_vars

\* What mark_commit_reachable(c) leaves under the name of c.
Named(store, c) == {r \in store : r.name = GcRefName(c)}

PinReturned(c, result) == call = Call("mark_commit_reachable", c, result)

C8_PinIdempotence ==
    \A c \in Commits :
        (call.op = "mark_commit_reachable" /\ call.oid = c /\ repeated) =>
            /\ call.result \in {"Ok", "IoError"}
            /\ refs = pre
            /\ Named(refs, c) = {Direct(GcRefName(c), c)}

\* The second of two pins of a commit has returned Ok.
C8_Witness ==
    \E c \in Commits : PinReturned(c, "Ok") /\ repeated /\ refs = pre

\* C9 (Pin exclusivity): when mark_commit_reachable(c) has returned, with any
\* result, the references outside the reserved namespace are as before, and
\* the store differs from the one before only under refs/branchless/<hex of c>.
C9_PinExclusivity ==
    call.op = "mark_commit_reachable" =>
        /\ NonReserved(refs) = NonReserved(pre)
        /\ \A r \in (refs \ pre) \cup (pre \ refs) :
              r.name = "refs/branchless/" \o to_string(call.oid)

\* A pin that replaced a reference in a store that holds a branch.
C9_Witness ==
    /\ PinReturned(195, "Ok")
    /\ Direct(GcRefName(195), 178) \in pre \ refs
    /\ Direct("refs/heads/feature", 178) \in refs

\* C10 (pinned until swept): a direct reference refs/branchless/<hex of c> to
\* c stays in the store in every step, except a deleting step of a gc whose
\* graph does not contain c.
C10_PinnedUntilSwept ==
    [][\A c \in Commits :
          (Direct(GcRefName(c), c) \in refs /\ Direct(GcRefName(c), c) \notin refs') =>
              (gcpc \in {"delete", "unlink"} /\ graph.ok /\ c \notin graph.commits)]_vars

\* A pinned commit was pinned again and then swept by a gc whose graph did
\* not contain it.
C10_Witness ==
    \E c \in Commits :
        /\ SweepReturned("Ok")
        /\ Direct(GcRefName(c), c) \in pre \ refs
        /\ c \notin graph.commits

----------------------------------------------------------------------------

ProgressLine == <<"branchless: collecting garbage">>

\* C11 as stated (progress notification): a call of gc writes the progress
\* line once, before it enumerates or deletes a reference, and writes no
\* other line; when gc has returned, with any result, the sink holds that one
\* line.
C11_ProgressLineAsStated ==
    InSweep =>
        /\ Len(out) <= 1
        /\ gcpc \in {"find", "iter", "delete", "unlink"} => out = ProgressLine
        /\ refs # pre => out = ProgressLine
        /\ gcpc = "idle" => out = ProgressLine

\* C11 amended (progress notification): a call of gc writes at most one line;
\* the progress line is in the sink before gc enumerates or deletes a
\* reference; when gc has returned, the sink holds that one line, unless the
\* graph could not be computed or the line could not be written, and then it
\* holds none.
C11_ProgressLine ==
    InSweep =>
        /\ Len(out) <= 1
        /\ gcpc \in {"find", "iter", "delete", "unlink"} => out = ProgressLine
        /\ refs # pre => out = ProgressLine
        /\ gcpc = "idle" =>
              out = IF call.result \in {"VisibilityError", "WriteError"}
                    THEN <<>> ELSE ProgressLine

\* gc deleted two references and the sink holds the one line.
C11_Witness ==
    /\ SweepReturned("Ok")
    /\ Cardinality(pre \ refs) = 2
    /\ out = ProgressLine

----------------------------------------------------------------------------

HexValue(ch) == CHOOSE i \in 0..15 : SubSeq(HexDigits, i + 1, i + 1) = ch

IsHex(s) == \A i \in 1..Len(s) : \E j \in 1..16 : SubSeq(s, i, i) = SubSeq(HexDigits, j, j)

\* The number a string of hexadecimal digits reads as.
RECURSIVE FromHex(_)
FromHex(s) ==
    IF s = "" THEN 0
    ELSE 16 * FromHex(SubSeq(s, 1, Len(s) - 1)) + HexValue(SubSeq(s, Len(s), Len(s)))

\* The part of a name after refs/branchless/.
AfterPrefix(n) == SubSeq(n, Len("refs/branchless/") + 1, Len(n))

\* Reference r is a direct reference to the id that its name spells out in
\* full.
PointsAtItsName(r) ==
    /\ r.kind = "direct"
    /\ Len(AfterPrefix(r.name)) = 2 * OidLen
    /\ IsHex(AfterPrefix(r.name))
    /\ FromHex(AfterPrefix(r.name)) = r.oid

NamesHold(store) == \A r \in store : Reserved(r) => PointsAtItsName(r)

\* C12 (reserved-namespace invariant): in a store where every reference of
\* the reserved namespace points at the id that its name spells, a step of
\* mark_commit_reachable or gc leaves a store of that kind, and every
\* reference of the reserved namespace is after the step as it was or gone:
\* names are created or deleted, never pointed elsewhere.
C12_ReservedNamespace ==
    [][NamesHold(refs) =>
          /\ NamesHold(refs')
          /\ \A r \in refs :
                Reserved(r) => (r \in refs' \/ Lookup(refs', r.name) = {})]_vars

\* A pin added a reference to a store that held gc references, all of them
\* pointing at the ids their names spell.
C12_Witness ==
    \E c \in Commits :
        /\ PinReturned(c, "Ok")
        /\ NamesHold(pre)
        /\ \E r \in pre : Reserved(r)
        /\ Named(pre, c) = {}
        /\ Named(refs, c) # {}
        /\ NamesHold(refs)

----------------------------------------------------------------------------

\* gc has returned an error.
SweepAborted == gcpc = "idle" /\ InSweep /\ call.result \notin {"running", "Ok"}

\* C13 (abort leaves a consistent partial result): when gc has returned an
\* error, the store is the one gc began with less some gc references of
\* commits outside the graph, every other reference is as it was, and an
\* error that came before the loop of deletions (graph, progress line,
\* enumeration) has left the store as it was.
C13_PartialResult ==
    SweepAborted =>
        /\ refs \subseteq pre
        /\ (pre \ refs) \subseteq Dead
        /\ \A r \in pre \ refs : Lookup(refs, r.name) = {}
        /\ call.result # "DeleteError" => refs = pre

\* gc deleted one dangling reference, failed to delete the next and
\* returned the error; the second one is still there.
C13_Witness ==
    /\ SweepReturned("DeleteError")
    /\ pre \ refs # {}
    /\ Dead \cap refs # {}

----------------------------------------------------------------------------

Range(s) == {s[i] : i \in 1..Len(s)}

\* C14 as stated (deletion independence): whether a dangling reference gets
\* deleted does not depend on the deletion of another one having happened or
\* succeeded: when gc has returned from the loop of deletions, with Ok or
\* with the error of a deletion, at most the one reference whose deletion
\* failed is left of the dangling ones.
C14_DeletionIndependenceAsStated ==
    (gcpc = "idle" /\ InSweep /\ call.result \in {"Ok", "DeleteError"}) =>
        Cardinality(Dead \cap refs) <= 1

\* C14 amended (deletion independence): in the loop of deletions, in every
\* order, the references still to delete are in the store with the value
\* they were enumerated with, whatever was deleted before them, and together
\* with the deleted ones they are the dangling references; when gc has
\* returned Ok the set removed is the set of dangling references.  (A failed
\* deletion ends the loop: the references after it in the order stay.)
C14_DeletionIndependence ==
    (InSweep /\ graph.ok) =>
        /\ gcpc = "delete" =>
              /\ Range(dangling) \subseteq refs
              /\ Cardinality(Range(dangling)) = Len(dangling)
              /\ Range(dangling) \cup (pre \ refs) = Dead
              /\ Range(dangling) \cap (pre \ refs) = {}
        /\ SweepReturned("Ok") => pre \ refs = Dead

\* Two references dangle, one of them is deleted and the other is next.
C14_Witness ==
    /\ gcpc = "delete"
    /\ Cardinality(Dead) = 2
    /\ Cardinality(pre \ refs) = 1
    /\ Len(dangling) = 1

----------------------------------------------------------------------------

\* The store that a gc without a failure of the graph, the sink, the
\* enumeration or a deletion leaves of a store: an error, or the store less
\* its dangling references.
SweepOf(store, log) ==
    LET found == find_dangling_references(store, make_graph(store, log)) IN
    [ok |-> found.ok, store |-> store \ found.result]

\* A gc that directly follows a gc that returned Ok, with the event log
\* unchanged, deletes nothing.
SecondSweepIdle ==
    (InSweep /\ repeated) => refs = pre

\* When gc has returned an error from a store that a gc without failure
\* would have swept, a gc run again without failure ends in the store that
\* the single gc would have left.
RerunConverges ==
    (SweepAborted /\ SweepOf(pre, events).ok) =>
        /\ SweepOf(refs, events).ok
        /\ SweepOf(refs, events).store = SweepOf(pre, events).store

\* C15 (Sweep idempotence and safe re-run): with the event log unchanged, a
\* gc directly after a gc that returned Ok deletes nothing and leaves the
\* store as it is, and running gc again after a gc that returned an error
\* ends in the store that a single gc without failure leaves of the store
\* the first one began with.
C15_SweepIdempotence == SecondSweepIdle /\ RerunConverges

----------------------------------------------------------------------------

\* Every reference a store of the model can hold at the start.
RefUniverse == UNION InitStores

\* Reference r is in the store, in the reserved namespace, and leads to a
\* commit outside the graph that the store and the event log give.
Dangles(r) ==
    /\ r \in refs
    /\ Reserved(r)
    /\ CommitOf(refs, r).ok
    /\ CommitOf(refs, r).id \notin make_graph(refs, events)

\* C16 (no accumulation): when gc is called again and again and the graph
\* keeps being computed, every reference of the reserved namespace whose
\* commit is outside the graph is deleted in the end.
C16_NoAccumulation ==
    \A r \in RefUniverse : Dangles(r) ~> (r \notin refs)

\* The same for the stores in which every reference resolves and keeps
\* resolving.
NoAccumulationWhenResolvable ==
    \A r \in RefUniverse :
        (Dangles(r) /\ Unresolvable(refs) = {}
                    /\ ~\E s \in refs : s.kind = "symbolic" /\ is_gc_ref(s.sym))
            ~> (r \notin refs)

----------------------------------------------------------------------------

\* The references of a store that resolve to an object that is no commit and
\* leads to none.
NonCommit(store) ==
    {r \in references(store) :
        /\ name(r).some
        /\ resolve(store, r).ok
        /\ ~peel_to_commit(store, resolve(store, r).ref).ok}

\* C19 (non-commit targets are skipped): a reference that resolves to an
\* object that does not lead to a commit is not among the dangling
\* references and stays in the store while gc runs and after it, in the
\* reserved namespace too, and it does not make gc return an error: when
\* every reference resolves and nothing failed to be computed, written, read
\* or deleted, gc has returned Ok.
C19_NonCommitSkipped ==
    (InSweep /\ NonCommit(pre) # {}) =>
        /\ NonCommit(pre) \subseteq refs
        /\ NonCommit(pre) \cap Range(dangling) = {}
        /\ (/\ gcpc = "idle"
            /\ Unresolvable(pre) = {}
            /\ call.result \notin {"VisibilityError", "WriteError", "ReadError", "DeleteError"}) =>
               call.result = "Ok"

\* gc deleted a dangling reference and returned Ok, and the gc reference of
\* a blob is still in the store.
C19_Witness ==
    /\ SweepReturned("Ok")
    /\ pre \ refs # {}
    /\ Direct(GcRefName(11), 11) \in refs
    /\ Direct(GcRefName(11), 11) \in NonCommit(pre)

----------------------------------------------------------------------------

\* Both processes called mark_commit_reachable(c) and both calls returned.
BothPinned(c) ==
    \A p \in Proc : pins[p].pc = "returned" /\ pins[p].oid = c

\* C18 as stated (concurrent pins): when two calls of
\* mark_commit_reachable(c) ran beside each other, in any interleaving, both
\* have returned Ok and the store holds exactly one reference
\* refs/branchless/<hex of c>, a direct reference to c.
C18_ConcurrentPinsAsStated ==
    \A c \in Commits :
        BothPinned(c) =>
            /\ \A p \in Proc : pins[p].result = "Ok"
            /\ Named(refs, c) = {Direct(GcRefName(c), c)}

\* C18 amended (concurrent pins): two calls of mark_commit_reachable(c) never
\* hold the lock file of the name at once; when both have returned, at least
\* one has returned Ok, the other one Ok or the error of the lock file it
\* found taken, the store holds exactly one reference
\* refs/branchless/<hex of c>, a direct reference to c, and the other
\* references are as before.
C18_ConcurrentPins ==
    \A c \in Commits :
        /\ ~(\A p \in Proc : pins[p].pc = "locked" /\ pins[p].oid = c)
        /\ BothPinned(c) =>
              /\ \E p \in Proc : pins[p].result = "Ok"
              /\ \A p \in Proc : pins[p].result \in {"Ok", "Locked"}
              /\ Named(refs, c) = {Direct(GcRefName(c), c)}
              /\ Cardinality(Named(refs, c)) = 1
              /\ refs \ Named(refs, c) = pre \ Named(pre, c)

\* The second call found the lock file of the first and returned the error;
\* the first wrote the reference, which was not there before.
C18_Witness ==
    \E c \in Commits :
        /\ BothPinned(c)
        /\ pins[1].result = "Ok"
        /\ pins[2].result = "Locked"
        /\ Named(pre, c) = {}
        /\ Named(refs, c) = {Direct(GcRefName(c), c)}

----------------------------------------------------------------------------

\* The store that mark_commit_reachable(c) leaves of a store when it
\* returns Ok.
PinOf(store, c) == reference(store, GcRefName(c), c, TRUE).store

\* The call of process p has returned Ok.
Wrote(p) == pins[p].pc = "returned" /\ pins[p].result = "Ok"

\* C20 (Pin is a no-op on failure): no call of mark_commit_reachable calls
\* repo.reference more than once, and a call that found the name invalid
\* has not called it.  When a call has returned an error, for the name, for
\* the lock file or for the write, the store holds nothing of it: the store
\* is the one before the calls, with the reference of the other call
\* written when that call has returned Ok.
C20_PinNoOpOnFailure ==
    \A p \in Proc :
        /\ pins[p].writes <= 1
        /\ pins[p].result = "InvalidName" => pins[p].writes = 0
        /\ (pins[p].pc = "returned" /\ pins[p].result # "Ok") =>
              \A q \in Proc \ {p} :
                  refs = IF Wrote(q) THEN PinOf(pre, pins[q].oid) ELSE pre

\* A call found the lock file of the other call and returned the error
\* after one call of repo.reference; the write of the other call failed,
\* and the commit, which had no reference, has none.
C20_Witness ==
    \E c \in Commits :
        /\ BothPinned(c)
        /\ pins[1].result = "Locked" /\ pins[1].writes = 1
        /\ pins[2].result = "IoError" /\ pins[2].writes = 1
        /\ Named(pre, c) = {}
        /\ refs = pre

\* The call of gc and the call of mark_commit_reachable(c) of process 1 have
\* both returned.
PinAndSweepReturned(c) ==
    /\ gcpc = "idle"
    /\ InSweep
    /\ pins[1].pc = "returned"
    /\ pins[1].oid = c

\* The references in which two stores differ.
Differ(s, t) == (s \ t) \cup (t \ s)

\* The store is the one that mark_commit_reachable(c) and then gc leave, or
\* the one that gc and then mark_commit_reachable(c) leave, and it differs
\* from the store that gc alone leaves under the name
\* refs/branchless/<hex of c> only.
SequentialOutcome(c) ==
    IF pins[1].at = "before"
    THEN refs = SweepOf(pre, events).store
    ELSE /\ refs \in {SweepOf(PinOf(pre, c), events).store,
                      PinOf(SweepOf(pre, events).store, c)}
         /\ \A r \in Differ(refs, SweepOf(pre, events).store) :
               r.name = GcRefName(c)

\* C17 as stated (Pin/Sweep race): when one call of mark_commit_reachable(c)
\* and one call of gc have run beside each other and returned, in any
\* interleaving, the store is the one that mark_commit_reachable(c) and then
\* gc leave, or the one that gc and then mark_commit_reachable(c) leave, and
\* it differs from the store that gc alone leaves under the name
\* refs/branchless/<hex of c> only.
C17_PinSweepRaceAsStated ==
    \A c \in Commits : PinAndSweepReturned(c) => SequentialOutcome(c)

\* C17 amended (Pin/Sweep race): when one call of mark_commit_reachable(c)
\* and one call of gc have run beside each other and returned, in any
\* interleaving, and both returned Ok and every reference of the store gc
\* began with resolves, the store is the one that one of the two orders
\* leaves and differs from the store gc alone leaves under the name
\* refs/branchless/<hex of c> only.  gc returns the error of a deletion only
\* for the reference of that name, locked or rewritten by the other call,
\* which is then in the store; the dangling references after it in the
\* order stay.  The other call returns Ok, or the error of the lock when gc
\* holds the lock file of that name to delete it: gc then returns Ok and
\* leaves the store it began with less its dangling references, the one of
\* that name among them.  In every case the references outside the reserved
\* namespace are as before, nothing but refs/branchless/<hex of c> is
\* added, and what is removed dangled under the graph gc computed or has
\* that name; when gc returned Ok, the store differs from the store gc
\* began with less its dangling references under that name only, and when
\* it returned the error of the enumeration, from the store it began with
\* under that name only.
C17_PinSweepRace ==
    \A c \in Commits :
        PinAndSweepReturned(c) =>
            /\ (call.result = "Ok" /\ pins[1].result = "Ok"
                    /\ SweepOf(pre, events).ok) => SequentialOutcome(c)
            /\ NonReserved(refs) = NonReserved(pre)
            /\ refs \subseteq pre \cup {Direct(GcRefName(c), c)}
            /\ \A r \in pre \ refs : r.name = GcRefName(c) \/ r \in Dead
            /\ call.result \in {"Ok", "ResolveError", "DeleteError"}
            /\ call.result = "Ok" =>
                  \A r \in Differ(refs, pre \ Dead) : r.name = GcRefName(c)
            /\ call.result = "ResolveError" =>
                  \A r \in Differ(refs, pre) : r.name = GcRefName(c)
            /\ call.result = "DeleteError" =>
                  /\ Named(pre, c) # {}
                  /\ Named(refs, c) = {Direct(GcRefName(c), c)}
                  /\ pins[1].result = "Ok"
            /\ pins[1].result \in {"Ok", "Locked"}
            /\ pins[1].result = "Locked" =>
                  /\ call.result = "Ok"
                  /\ Named(pre, c) # {}
                  /\ Named(pre, c) \subseteq Dead
                  /\ refs = pre \ Dead

\* gc found refs/branchless/b2 locked by the other call and returned the
\* error; the dangling reference after it in the order of the names,
\* refs/branchless/c3, is still in the store, and the other call has written
\* the reference of b2: the store is the one of neither order.
C17_Witness ==
    /\ PinAndSweepReturned(178)
    /\ call.result = "DeleteError"
    /\ pins[1].result = "Ok"
    /\ \E r \in Dead \cap refs : r.name = GcRefName(195)
    /\ refs \notin {SweepOf(PinOf(pre, 178), events).store,
                    PinOf(SweepOf(pre, events).store, 178)}

----------------------------------------------------------------------------

\* While no other process has acted, the steps of the enumeration have
\* collected what find_dangling_references gives in one step.
FindAgrees ==
    (pins[1].pc = "idle" /\ InSweep /\ graph.ok /\ gcpc \in {"iter", "delete"}
        /\ todo = {} /\ cur = <<>>) =>
        LET found == find_dangling_references(pre, graph.commits) IN
        /\ found.ok
        /\ Range(dangling) \cup (pre \ refs) = found.result
        /\ dangling \in Orders(Range(dangling))

StepsAgree ==
    (pins[1].pc = "idle" /\ SweepReturned("ResolveError")) =>
        ~find_dangling_references(pre, graph.commits).ok

\* A chain of k symbolic references that ends at the main branch.
Chain(k) ==
    BaseRefs \cup {Symbolic("refs/chain/s" \o ToString(i),
                            IF i = 1 THEN "refs/heads/master"
                            ELSE "refs/chain/s" \o ToString(i - 1)) : i \in 1..k}

\* The nesting limit: a reference held as the head of a chain of up to
\* MaxNesting + 1 symbolic references resolves, to the main branch, and the
\* head of a longer chain does not.
NestingLimit ==
    \A k \in 1..(MaxNesting + 3) :
        LET head == Symbolic("refs/chain/s" \o ToString(k),
                             IF k = 1 THEN "refs/heads/master"
                             ELSE "refs/chain/s" \o ToString(k - 1)) IN
        /\ resolve(Chain(k), head).ok = (k <= MaxNesting + 1)
        /\ k <= MaxNesting + 1 =>
              resolve(Chain(k), head).ref = Direct("refs/heads/master", 161)


\* While no other process has acted, the steps of the deletions leave what
\* the deletions in one step each leave: gc returns Ok and the store is the
\* one it began with less what the enumeration found.
DeleteAgrees ==
    (pins[1].pc = "idle" /\ SweepReturned("Ok") /\ graph.ok) =>
        refs = pre \ find_dangling_references(pre, graph.commits).result

============================================================================
